---- MODULE Spec2Model ----
(***************************************************************************)
(* Model of poem-typed-multipart: the part converters (src/src/part.rs),   *)
(* the field map (src/src/map.rs), the request extractor (src/src/lib.rs)  *)
(* and the decoder emitted by the derive macro                             *)
(* (src/poem-typed-multipart-macro/src/lib.rs).                            *)
(*                                                                         *)
(* A payload is a sequence of bytes (0..255).  A part name, a field        *)
(* identifier and a lookup key are opaque strings.  An error message is    *)
(* the sequence of the pieces its Display implementation writes.           *)
(***************************************************************************)
EXTENDS Integers, Sequences, FiniteSets, TLC

\* ------------------------------------------------------------------------
\* Bounds of the model
\* ------------------------------------------------------------------------
MaxLen == 3
MaxParts == 2
MaxFields == 2

\* Bytes payloads are drawn from: + - . 1 9, the two bytes of U+00E9, 0xFF
Alphabet == {43, 45, 46, 49, 57, 195, 169, 255}

RECURSIVE SeqsUpTo(_, _)
SeqsUpTo(S, n) ==
    IF n = 0 THEN {<< >>}
    ELSE LET shorter == SeqsUpTo(S, n - 1)
         IN  shorter \cup {Append(s, x) : s \in {t \in shorter : Len(t) = n - 1}, x \in S}

\* "true", "false", "-199", "1e1", "inf", "NaN", "+.e1", U+20AC, U+1F600,
\* "1E-1", "-199999", "001", "10"
ExtraPayloads ==
    { <<116, 114, 117, 101>>, <<102, 97, 108, 115, 101>>, <<45, 49, 57, 57>>,
      <<49, 101, 49>>, <<105, 110, 102>>, <<78, 97, 78>>, <<43, 46, 101, 49>>,
      <<226, 130, 172>>, <<240, 159, 152, 128>>, <<49, 69, 45, 49>>,
      <<45, 49, 57, 57, 57, 57, 57>>, <<48, 48, 49>>, <<49, 48>> }

Payloads == SeqsUpTo(Alphabet, MaxLen) \cup ExtraPayloads

\* ------------------------------------------------------------------------
\* Result values
\* ------------------------------------------------------------------------
Ok(v) == [ok |-> TRUE, val |-> v]
Err(e) == [ok |-> FALSE, err |-> e]

\* ------------------------------------------------------------------------
\* String::from_utf8 (std), as used by `impl FromMultiPartPart for String`
\* ------------------------------------------------------------------------
IsCont(b) == b >= 128 /\ b <= 191

\* Width of the sequence a lead byte announces, 0 for a byte that cannot lead
Utf8Width(b) ==
    IF b < 128 THEN 1
    ELSE IF b >= 194 /\ b <= 223 THEN 2
    ELSE IF b >= 224 /\ b <= 239 THEN 3
    ELSE IF b >= 240 /\ b <= 244 THEN 4
    ELSE 0

\* Range check of the second byte of a 3- or 4-byte sequence
SecondOk(first, second) ==
    CASE first = 224 -> second >= 160 /\ second <= 191
      [] first = 237 -> second >= 128 /\ second <= 159
      [] first = 240 -> second >= 144 /\ second <= 191
      [] first = 244 -> second >= 128 /\ second <= 143
      [] OTHER -> IsCont(second)

\* error_len = 0 stands for None (the input ends inside a sequence)
Utf8Bad(i, n) == [valid |-> FALSE, valid_up_to |-> i - 1, error_len |-> n]

RECURSIVE Utf8Scan(_, _)
Utf8Scan(b, i) ==
    IF i > Len(b) THEN [valid |-> TRUE, valid_up_to |-> Len(b), error_len |-> 0]
    ELSE LET w == Utf8Width(b[i]) IN
         IF w = 0 THEN Utf8Bad(i, 1)
         ELSE IF w = 1 THEN Utf8Scan(b, i + 1)
         ELSE IF i + 1 > Len(b) THEN Utf8Bad(i, 0)
         ELSE IF ~ (IF w = 2 THEN IsCont(b[i + 1]) ELSE SecondOk(b[i], b[i + 1]))
              THEN Utf8Bad(i, 1)
         ELSE IF w = 2 THEN Utf8Scan(b, i + 2)
         ELSE IF i + 2 > Len(b) THEN Utf8Bad(i, 0)
         ELSE IF ~ IsCont(b[i + 2]) THEN Utf8Bad(i, 2)
         ELSE IF w = 3 THEN Utf8Scan(b, i + 3)
         ELSE IF i + 3 > Len(b) THEN Utf8Bad(i, 0)
         ELSE IF ~ IsCont(b[i + 3]) THEN Utf8Bad(i, 3)
         ELSE Utf8Scan(b, i + 4)

\* Display of std::string::FromUtf8Error
FromUtf8ErrorMsg(scan) ==
    IF scan.error_len = 0
    THEN <<"incomplete utf-8 byte sequence from index ", ToString(scan.valid_up_to)>>
    ELSE <<"invalid utf-8 sequence of ", ToString(scan.error_len),
           " bytes from index ", ToString(scan.valid_up_to)>>

\* A String keeps the bytes it was built from
FromUtf8(body, scan) ==
    IF scan.valid THEN Ok([t |-> "String", bytes |-> body])
    ELSE Err([ty |-> "FromUtf8Error", variant |-> "FromUtf8Error",
              msg |-> FromUtf8ErrorMsg(scan)])

StringFromBytes(body) == FromUtf8(body, Utf8Scan(body, 1))

\* str::chars on valid UTF-8: the code points, in order
RECURSIVE CharsFrom(_, _)
CharsFrom(b, i) ==
    IF i > Len(b) THEN << >>
    ELSE LET w == Utf8Width(b[i]) IN
         IF w = 1 THEN <<b[i]>> \o CharsFrom(b, i + 1)
         ELSE IF w = 2
              THEN <<(b[i] % 32) * 64 + (b[i + 1] % 64)>> \o CharsFrom(b, i + 2)
         ELSE IF w = 3
              THEN <<(b[i] % 16) * 4096 + (b[i + 1] % 64) * 64 + (b[i + 2] % 64)>>
                   \o CharsFrom(b, i + 3)
         ELSE <<(b[i] % 8) * 262144 + (b[i + 1] % 64) * 4096
                + (b[i + 2] % 64) * 64 + (b[i + 3] % 64)>> \o CharsFrom(b, i + 4)

Chars(b) == CharsFrom(b, 1)

\* ------------------------------------------------------------------------
\* str::parse for the types of impl_stringly_types! (std FromStr impls)
\* ------------------------------------------------------------------------
IntTypes == {"u8", "u16", "i8", "i16"}
FloatTypes == {"f32", "f64"}
StringlyTypes == {"bool", "char"} \cup FloatTypes \cup IntTypes
ByteTypes == {"Vec<u8>", "&[u8]"}
BaseTypes == {"String"} \cup StringlyTypes \cup ByteTypes

IsSigned(ty) == ty \in {"i8", "i16"}

IntMin(ty) ==
    CASE ty = "i8" -> -128
      [] ty = "i16" -> -32768
      [] OTHER -> 0

IntMax(ty) ==
    CASE ty = "u8" -> 255
      [] ty = "u16" -> 65535
      [] ty = "i8" -> 127
      [] ty = "i16" -> 32767

IsDigit(c) == c >= 48 /\ c <= 57

InRange(ty, n) == n >= IntMin(ty) /\ n <= IntMax(ty)

Overflow(positive) == IF positive THEN "PosOverflow" ELSE "NegOverflow"

\* The digit loop of from_str_radix: the digit is validated, then the
\* multiplication and the addition (subtraction for a negative) are checked
RECURSIVE IntLoop(_, _, _, _, _)
IntLoop(ty, digits, i, acc, positive) ==
    IF i > Len(digits) THEN Ok(acc)
    ELSE IF ~ IsDigit(digits[i]) THEN Err("InvalidDigit")
    ELSE LET mul == acc * 10
             x == digits[i] - 48
             next == IF positive THEN mul + x ELSE mul - x
         IN  IF ~ InRange(ty, mul) THEN Err(Overflow(positive))
             ELSE IF ~ InRange(ty, next) THEN Err(Overflow(positive))
             ELSE IntLoop(ty, digits, i + 1, next, positive)

ParseInt(ty, src) ==
    IF Len(src) = 0 THEN Err("Empty")
    ELSE IF Len(src) = 1 /\ src[1] \in {43, 45} THEN Err("InvalidDigit")
    ELSE IF src[1] = 43 THEN IntLoop(ty, Tail(src), 1, 0, TRUE)
    ELSE IF src[1] = 45 /\ IsSigned(ty) THEN IntLoop(ty, Tail(src), 1, 0, FALSE)
    ELSE IntLoop(ty, src, 1, 0, TRUE)

\* Display of std::num::ParseIntError
ParseIntErrorMsg(kind) ==
    CASE kind = "Empty" -> <<"cannot parse integer from empty string">>
      [] kind = "InvalidDigit" -> <<"invalid digit found in string">>
      [] kind = "PosOverflow" -> <<"number too large to fit in target type">>
      [] kind = "NegOverflow" -> <<"number too small to fit in target type">>

\* bool::from_str
ParseBool(src) ==
    IF src = <<116, 114, 117, 101>> THEN Ok(TRUE)
    ELSE IF src = <<102, 97, 108, 115, 101>> THEN Ok(FALSE)
    ELSE Err("ParseBoolError")

\* (the back quotes of the Rust messages are written as single quotes)
ParseBoolErrorMsg == <<"provided string was not 'true' or 'false'">>

\* char::from_str: exactly one code point
OneChar(cs) ==
    IF Len(cs) = 0 THEN Err("EmptyString")
    ELSE IF Len(cs) = 1 THEN Ok(cs[1])
    ELSE Err("TooManyChars")

ParseChar(src) == OneChar(Chars(src))

ParseCharErrorMsg(kind) ==
    IF kind = "EmptyString" THEN <<"cannot parse char from empty string">>
    ELSE <<"too many characters in string">>

\* Lower-casing of an ASCII letter, as eq_ignore_case of parse_inf_nan does
Lower(c) == IF c >= 65 /\ c <= 90 THEN c + 32 ELSE c

LowerAll(s) == [i \in 1..Len(s) |-> Lower(s[i])]

RECURSIVE DigitRun(_, _)
\* Index of the first non-digit at or after i
DigitRun(s, i) == IF i <= Len(s) /\ IsDigit(s[i]) THEN DigitRun(s, i + 1) ELSE i

RECURSIVE DigitsValue(_, _, _, _)
\* Value of the digits s[i..j-1] appended to acc
DigitsValue(s, i, j, acc) ==
    IF i >= j THEN acc ELSE DigitsValue(s, i + 1, j, acc * 10 + (s[i] - 48))

RECURSIVE Normalize(_, _)
\* A decimal mant * 10^exp without trailing zeros in mant
Normalize(mant, exp) ==
    IF mant = 0 THEN [mant |-> 0, exp |-> 0]
    ELSE IF mant % 10 = 0 THEN Normalize(mant \div 10, exp + 1)
    ELSE [mant |-> mant, exp |-> exp]

\* parse_scientific of dec2flt, after the optional sign of the exponent: the
\* exponent needs a digit and the input ends after its digits.  The float
\* is represented by the decimal it is the rounding of.
ExponentDigits(s, mant, nFrac, expNeg, expStart, expEnd) ==
    IF expEnd = expStart THEN Err("Invalid")
    ELSE IF expEnd <= Len(s) THEN Err("Invalid")
    ELSE IF expNeg
         THEN Ok(Normalize(mant, (0 - DigitsValue(s, expStart, expEnd, 0)) - nFrac))
         ELSE Ok(Normalize(mant, DigitsValue(s, expStart, expEnd, 0) - nFrac))

\* parse_scientific of dec2flt: [sign] digits after the e at s[at - 1]
ParseScientific(s, mant, nFrac, at) ==
    IF at <= Len(s) /\ s[at] \in {43, 45}
    THEN ExponentDigits(s, mant, nFrac, s[at] = 45, at + 1, DigitRun(s, at + 1))
    ELSE ExponentDigits(s, mant, nFrac, FALSE, at, DigitRun(s, at))

\* parse_partial_number of dec2flt after the mantissa s[1..fracEnd-1]: at
\* least one digit, then an optional exponent, then the end of the input
AfterMantissa(s, intEnd, fracStart, fracEnd, mant) ==
    IF (intEnd - 1) + (fracEnd - fracStart) = 0 THEN Err("Invalid")
    ELSE IF fracEnd <= Len(s) /\ s[fracEnd] \in {101, 69}
         THEN ParseScientific(s, mant, fracEnd - fracStart, fracEnd + 1)
    ELSE IF fracEnd <= Len(s) THEN Err("Invalid")
    ELSE Ok(Normalize(mant, 0 - (fracEnd - fracStart)))

\* The fraction: '.' and digits, when a '.' follows the integer digits
AfterInteger(s, intEnd, fracStart, fracEnd) ==
    AfterMantissa(s, intEnd, fracStart, fracEnd,
                  DigitsValue(s, fracStart, fracEnd, DigitsValue(s, 1, intEnd, 0)))

AfterIntegerDigits(s, intEnd) ==
    IF intEnd <= Len(s) /\ s[intEnd] = 46
    THEN AfterInteger(s, intEnd, intEnd + 1, DigitRun(s, intEnd + 1))
    ELSE AfterInteger(s, intEnd, intEnd, intEnd)

\* parse_number of dec2flt: digits [. digits] [(e|E) [sign] digits]
ParseNumber(s) == AfterIntegerDigits(s, DigitRun(s, 1))

\* dec2flt after the sign: parse_number, then parse_inf_nan
FloatOf(negative, num, low) ==
    IF num.ok
    THEN Ok([kind |-> "num", neg |-> negative,
             mant |-> num.val.mant, exp |-> num.val.exp])
    ELSE IF low = <<110, 97, 110>>
         THEN Ok([kind |-> "nan", neg |-> negative, mant |-> 0, exp |-> 0])
    ELSE IF low = <<105, 110, 102>> \/ low = <<105, 110, 102, 105, 110, 105, 116, 121>>
         THEN Ok([kind |-> "inf", neg |-> negative, mant |-> 0, exp |-> 0])
    ELSE Err("Invalid")

ParseUnsigned(negative, s) ==
    IF Len(s) = 0 THEN Err("Invalid")
    ELSE FloatOf(negative, ParseNumber(s), LowerAll(s))

\* dec2flt: the sign is split off, `-` makes the value negative
ParseFloat(src) ==
    IF Len(src) = 0 THEN Err("Empty")
    ELSE IF src[1] \in {43, 45} THEN ParseUnsigned(src[1] = 45, Tail(src))
    ELSE ParseUnsigned(FALSE, src)

ParseFloatErrorMsg(kind) ==
    IF kind = "Empty" THEN <<"cannot parse float from empty string">>
    ELSE <<"invalid float literal">>

\* str::parse::<ty>() on the text of a String
Parse(ty, src) ==
    CASE ty = "bool" -> ParseBool(src)
      [] ty = "char" -> ParseChar(src)
      [] ty \in FloatTypes -> ParseFloat(src)
      [] ty \in IntTypes -> ParseInt(ty, src)

ParseErrorMsg(ty, kind) ==
    CASE ty = "bool" -> ParseBoolErrorMsg
      [] ty = "char" -> ParseCharErrorMsg(kind)
      [] ty \in FloatTypes -> ParseFloatErrorMsg(kind)
      [] ty \in IntTypes -> ParseIntErrorMsg(kind)

\* ------------------------------------------------------------------------
\* The error enums of part.rs and their Display (thiserror #[error])
\* ------------------------------------------------------------------------
ErrorEnum(ty) ==
    CASE ty = "bool" -> "DeserializeBoolError"
      [] ty = "char" -> "DeserializeCharError"
      [] ty \in FloatTypes -> "DeserializeFloatError"
      [] ty \in IntTypes -> "DeserializeIntError"

\* #[from] std::string::FromUtf8Error
ConvertionToString(ty, utf8err) ==
    [ty |-> ErrorEnum(ty), variant |-> "ConvertionToString",
     msg |-> IF ty \in IntTypes
             THEN <<"Could not convert the value to UTF-8">>
             ELSE <<"Could not convert the value to UTF-8: ">> \o utf8err.msg]

\* #[from] of the parse error of the type
ConvertionToValue(ty, kind) ==
    [ty |-> ErrorEnum(ty),
     variant |-> CASE ty = "bool" -> "ConvertionToFloat"
                   [] ty = "char" -> "ConvertionToChar"
                   [] ty \in FloatTypes -> "ConvertionToFloat"
                   [] ty \in IntTypes -> "ConvertionToInt",
     msg |-> (CASE ty = "bool" -> <<"Could not parse the value as boolean: ">>
                [] ty = "char" -> <<"Could not parse the value as character: ">>
                [] ty \in FloatTypes -> <<"Could not parse the value as float: ">>
                [] ty \in IntTypes -> <<"Could not parse the value as a integer: ">>)
             \o ParseErrorMsg(ty, kind)]

\* ------------------------------------------------------------------------
\* FromMultiPartPart::from_bytes
\* ------------------------------------------------------------------------
\* `.parse()?`: the parse error goes through #[from] into the enum
ParsedValue(ty, parsed) ==
    IF ~ parsed.ok THEN Err(ConvertionToValue(ty, parsed.err))
    ELSE Ok([t |-> ty, v |-> parsed.val])

\* `String::from_bytes(body)?`: the UTF-8 error goes through #[from] into
\* the enum, otherwise the text is parsed
ParseText(ty, text) ==
    IF ~ text.ok THEN Err(ConvertionToString(ty, text.err))
    ELSE ParsedValue(ty, Parse(ty, text.val.bytes))

\* Variant: a payload that is not UTF-8 is reported by the parse stage
ParseTextOneStage(ty, text) ==
    IF ~ text.ok THEN Err(ConvertionToValue(ty, "InvalidDigit"))
    ELSE ParsedValue(ty, Parse(ty, text.val.bytes))

StringlyFromBytesOneStage(ty, body) == ParseTextOneStage(ty, StringFromBytes(body))

\* impl_stringly_types!: String::from_bytes(body)?.parse()?
StringlyFromBytes(ty, body) == ParseText(ty, StringFromBytes(body))

\* &[u8] and Vec<u8>: the bytes themselves
BytesFromBytes(ty, body) == Ok([t |-> ty, bytes |-> body])

BaseFromBytes(ty, body) ==
    CASE ty = "String" -> StringFromBytes(body)
      [] ty \in StringlyTypes -> StringlyFromBytes(ty, body)
      [] ty \in ByteTypes -> BytesFromBytes(ty, body)

\* A target type is a base type under `opt` layers of Option
Type(base, opt) == [base |-> base, opt |-> opt]

None == [t |-> "None"]
Some(v) == [t |-> "Some", some |-> v]

\* Result::map(Some)
MapSome(inner) == IF inner.ok THEN Ok(Some(inner.val)) ELSE inner

\* Variant: a failure becomes None
OkSome(inner) == IF inner.ok THEN Ok(Some(inner.val)) ELSE Ok(None)

RECURSIVE FromBytesLenient(_, _)
\* Variant: Option<T> turns a failure of T into None
FromBytesLenient(ty, body) ==
    IF ty.opt = 0 THEN BaseFromBytes(ty.base, body)
    ELSE OkSome(FromBytesLenient(Type(ty.base, ty.opt - 1), body))

RECURSIVE FromBytes(_, _)
\* Option<T>: T::from_bytes(body).map(Some)
FromBytes(ty, body) ==
    IF ty.opt = 0 THEN BaseFromBytes(ty.base, body)
    ELSE MapSome(FromBytes(Type(ty.base, ty.opt - 1), body))

\* ------------------------------------------------------------------------
\* Errors handed to the framework
\* ------------------------------------------------------------------------
\* Variant: the error is handed over as a server fault
InternalServerError(e) ==
    [status |-> 500, msg |-> e.msg, source |-> [ty |-> e.ty, variant |-> e.variant]]

\* poem::error::BadRequest(err): status 400, the Display of err as message
BadRequest(e) ==
    [status |-> 400, msg |-> e.msg, source |-> [ty |-> e.ty, variant |-> e.variant]]

\* #[error("The field `{0}` was not found in the request")]
ValueNotFoundError(key) ==
    [ty |-> "ValueNotFoundError", variant |-> "ValueNotFoundError",
     msg |-> <<"The field '", key, "' was not found in the request">>]

\* Variant: Option<T> without its override
HandleAbsentValueDefault(ty, key) == Err(BadRequest(ValueNotFoundError(key)))

\* FromMultiPartPart::handle_absent_value: the default, and the override of
\* Option<T>
HandleAbsentValue(ty, key) ==
    IF ty.opt > 0 THEN Ok(None)
    ELSE Err(BadRequest(ValueNotFoundError(key)))

\* ------------------------------------------------------------------------
\* MultiPartMap
\* ------------------------------------------------------------------------
EmptyMap == [k \in {} |-> << >>]

\* HashMap::insert
Insert(m, k, v) == [x \in (DOMAIN m) \cup {k} |-> IF x = k THEN v ELSE m[x]]

\* .map_err(poem::error::BadRequest)
MapErrBadRequest(value) == IF value.ok THEN value ELSE Err(BadRequest(value.err))

\* MultiPartMap::get
Get(m, key, ty) ==
    IF key \in DOMAIN m THEN MapErrBadRequest(FromBytes(ty, m[key]))
    ELSE HandleAbsentValue(ty, key)

\* ------------------------------------------------------------------------
\* The decoder emitted by #[derive(FromMultiPart)]
\* ------------------------------------------------------------------------
\* An Option<String> is << >> for None and <<s>> for Some(s)
NoName == << >>

\* Variant: the rename is not looked at
LookupKeyIdent(field) == field.ident

\* field_data.rename.unwrap_or_else(|| ident.to_string())
LookupKey(field) == IF field.rename = NoName THEN field.ident ELSE field.rename[1]

\* The `fields` vector of generate: one (ident, name) pair per field, in
\* declaration order; the target type of each get is the field's type
Generate(structure) ==
    [i \in 1..Len(structure) |->
        [ident |-> structure[i].ident, name |-> LookupKey(structure[i]),
         ty |-> structure[i].ty]]

\* Variant: every field is asked for and the last failure is the result
DecodeCollect(m, fields, i, bound, asked) ==
    LET rs == [j \in 1..Len(fields) |-> Get(m, fields[j].name, fields[j].ty)]
        bad == {j \in 1..Len(fields) : ~ rs[j].ok}
        keys == [j \in 1..Len(fields) |-> fields[j].name]
    IN  IF bad = {}
        THEN [result |-> Ok([j \in 1..Len(fields) |->
                                [ident |-> fields[j].ident, val |-> rs[j].val]]),
              queried |-> keys]
        ELSE [result |-> rs[CHOOSE j \in bad : \A k \in bad : k <= j], queried |-> keys]

\* The body of the generated decode: `let #ident = map.get(#name)?;` per
\* field, then Ok(Self { .. }).  `asked` logs the keys handed to get.
RECURSIVE DecodeFrom(_, _, _, _, _)
\* `let #ident = <r>?;` for field i, then the fields after it
BindField(m, fields, i, bound, asked, r) ==
    IF ~ r.ok THEN [result |-> r, queried |-> asked]
    ELSE DecodeFrom(m, fields, i + 1,
                    Append(bound, [ident |-> fields[i].ident, val |-> r.val]), asked)

DecodeFrom(m, fields, i, bound, asked) ==
    IF i > Len(fields) THEN [result |-> Ok(bound), queried |-> asked]
    ELSE BindField(m, fields, i, bound, Append(asked, fields[i].name),
                   Get(m, fields[i].name, fields[i].ty))

Decode(m, structure) == DecodeFrom(m, Generate(structure), 1, << >>, << >>)

\* ------------------------------------------------------------------------
\* Inputs
\* ------------------------------------------------------------------------
MaxOptDepth == 1

Types == {Type(b, o) : b \in BaseTypes, o \in 0..MaxOptDepth}

\* Part names, which are also the keys a get asks for
PartNames == {"id", "title"}

Keys == PartNames

\* "", "7", and a byte that is not UTF-8
BodyPayloads == {<< >>, <<55>>, <<255>>}

Parts == [name : {NoName} \cup {<<n>> : n \in PartNames}, data : BodyPayloads]

Bodies == SeqsUpTo(Parts, MaxParts)

\* Records of the decoder: fields with distinct identifiers
Idents == {"id", "title", "name"}

FieldTypes == {Type("u8", 0), Type("String", 0), Type("u8", 1)}

Fields == [ident : Idents, rename : {NoName, <<"full_name">>}, ty : FieldTypes]

Structures ==
    {s \in SeqsUpTo(Fields, MaxFields) :
        \A i, j \in 1..Len(s) : s[i].ident = s[j].ident => i = j}

\* "7" and a byte that is not UTF-8
MapPayloads == {<<55>>, <<255>>}

MapKeys == Idents \cup {"full_name"}

Maps == UNION {[d -> MapPayloads] : d \in SUBSET MapKeys}

\* ------------------------------------------------------------------------
\* State
\* ------------------------------------------------------------------------
VARIABLES
    pc,       \* where the request is: next_field, bytes, built, failed,
              \* decode, decoded, convert, converted
    body,     \* the parts of the multipart body, in body order
    pos,      \* index of the part the next next_field() call yields
    map,      \* MultiPartMap.map
    query,    \* the last get on the built map and what it returned
    record,   \* the declaration of the record being decoded
    decoded,  \* what decode returned and the keys it asked for
    conv      \* a conversion: target type, payload, what from_bytes returned

vars == <<pc, body, pos, map, query, record, decoded, conv>>

NoQuery == [key |-> "", ty |-> Type("String", 0), asked |-> FALSE, res |-> Ok(None)]
NoDecode == [result |-> Ok(<< >>), queried |-> << >>]
NoConv == [ty |-> Type("String", 0), body |-> << >>, done |-> FALSE, res |-> Ok(None)]

\* ------------------------------------------------------------------------
\* TypedMultiPart::from_request: MultiPartMap::new, then the decoder's gets
\* ------------------------------------------------------------------------
Init ==
    /\ pc = "next_field"
    /\ body \in Bodies
    /\ pos = 1
    /\ map = EmptyMap
    /\ query = NoQuery
    /\ record = << >>
    /\ decoded = NoDecode
    /\ conv = NoConv

\* Variant: an unnamed field is stored under the empty name
NextFieldSomeDefaultName ==
    /\ pc = "next_field"
    /\ pos <= Len(body)
    /\ IF body[pos].name = NoName
       THEN pos' = pos + 1 /\ pc' = pc /\ map' = Insert(map, "", body[pos].data)
       ELSE pos' = pos /\ pc' = "bytes" /\ map' = map
    /\ UNCHANGED <<body, query, record, decoded, conv>>

\* body.next_field().await yields Ok(Some(field)): an unnamed field is
\* skipped, a named one is held until its bytes arrive
NextFieldSome ==
    /\ pc = "next_field"
    /\ pos <= Len(body)
    /\ IF body[pos].name = NoName
       THEN pos' = pos + 1 /\ pc' = pc
       ELSE pos' = pos /\ pc' = "bytes"
    /\ UNCHANGED <<body, map, query, record, decoded, conv>>

\* body.next_field().await yields Ok(None): the loop ends, Ok(Self { map })
NextFieldNone ==
    /\ pc = "next_field"
    /\ pos > Len(body)
    /\ pc' = "built"
    /\ UNCHANGED <<body, pos, map, query, record, decoded, conv>>

\* body.next_field().await yields Err(_): `while let Ok(Some(field))` does
\* not match, the loop ends, Ok(Self { map })
NextFieldErr ==
    /\ pc = "next_field"
    /\ pc' = "built"
    /\ UNCHANGED <<body, pos, map, query, record, decoded, conv>>

\* field.bytes().await yields Ok(value): map.insert(name, value)
BytesOk ==
    /\ pc = "bytes"
    /\ map' = Insert(map, body[pos].name[1], body[pos].data)
    /\ pos' = pos + 1
    /\ pc' = "next_field"
    /\ UNCHANGED <<body, query, record, decoded, conv>>

\* field.bytes().await yields Err(e): `?` returns it from new, and
\* from_request returns it in turn
BytesErr ==
    /\ pc = "bytes"
    /\ pc' = "failed"
    /\ UNCHANGED <<body, pos, map, query, record, decoded, conv>>

\* T::decode(map) calls map.get::<S>(key)
GetValue ==
    /\ pc = "built"
    /\ \E key \in Keys, ty \in Types :
          query' = [key |-> key, ty |-> ty, asked |-> TRUE, res |-> Get(map, key, ty)]
    /\ UNCHANGED <<pc, body, pos, map, record, decoded, conv>>

Next ==
    \/ NextFieldSome
    \/ NextFieldNone
    \/ NextFieldErr
    \/ BytesOk
    \/ BytesErr
    \/ GetValue

Spec == Init /\ [][Next]_vars

\* ------------------------------------------------------------------------
\* The derived decoder on a field map
\* ------------------------------------------------------------------------
InitDecode ==
    /\ pc = "decode"
    /\ body = << >>
    /\ pos = 1
    /\ map \in Maps
    /\ query = NoQuery
    /\ record \in Structures
    /\ decoded = NoDecode
    /\ conv = NoConv

\* <T as FromMultiPart>::decode(map), as generated
DecodeRecord ==
    /\ pc = "decode"
    /\ decoded' = Decode(map, record)
    /\ pc' = "decoded"
    /\ UNCHANGED <<body, pos, map, query, record, conv>>

NextDecode == DecodeRecord

SpecDecode == InitDecode /\ [][NextDecode]_vars

\* ------------------------------------------------------------------------
\* One conversion of a payload
\* ------------------------------------------------------------------------
InitConv ==
    /\ pc = "convert"
    /\ body = << >>
    /\ pos = 1
    /\ map = EmptyMap
    /\ query = NoQuery
    /\ record = << >>
    /\ decoded = NoDecode
    /\ \E ty \in Types, p \in Payloads :
          conv = [ty |-> ty, body |-> p, done |-> FALSE, res |-> Ok(None)]

\* S::from_bytes(value)
Convert ==
    /\ pc = "convert"
    /\ conv' = [conv EXCEPT !.done = TRUE, !.res = FromBytes(conv.ty, conv.body)]
    /\ pc' = "converted"
    /\ UNCHANGED <<body, pos, map, query, record, decoded>>

NextConv == Convert

SpecConv == InitConv /\ [][NextConv]_vars

\* ------------------------------------------------------------------------
\* Vocabulary of the properties
\* ------------------------------------------------------------------------
\* The message names the key: one of its pieces is the key itself
NamesField(msg, key) == \E i \in 1..Len(msg) : msg[i] = key

\* Indices of the parts of b that carry the name k
PartsNamed(b, k) == {i \in 1..Len(b) : b[i].name = <<k>>}

NamesOf(b) == {b[i].name[1] : i \in {j \in 1..Len(b) : b[j].name # NoName}}

Last(S) == CHOOSE i \in S : \A j \in S : j <= i

\* The table that holds, for each name of b, the payload of its last part
LastWins(b) == [k \in NamesOf(b) |-> b[Last(PartsNamed(b, k))].data]

\* The parts MultiPartMap::new has gone past
Drained == SubSeq(body, 1, pos - 1)

IsNotFound(res, key) ==
    /\ ~ res.ok
    /\ res.err.source.ty = "ValueNotFoundError"
    /\ res.err.msg = <<"The field '", key, "' was not found in the request">>

\* C1: a get for a key that is not in the map fails with the "not found"
\* client error naming the key when the target type is not an Option, and
\* returns None without error when it is an Option
C1_AbsentPolicy ==
    (query.asked /\ query.key \notin DOMAIN map) =>
        IF query.ty.opt = 0
        THEN IsNotFound(query.res, query.key) /\ query.res.err.status = 400
        ELSE query.res = Ok(None)

C1_Witness ==
    /\ pc = "built"
    /\ query.asked
    /\ DOMAIN map = {"title"}
    /\ query.key = "id"
    /\ query.ty = Type("u8", 0)
    /\ IsNotFound(query.res, "id")

\* C3: every failure a get returns has status 400
C3_ClientError ==
    (query.asked /\ ~ query.res.ok) => query.res.err.status = 400

C3_Witness ==
    /\ query.asked
    /\ query.key \in DOMAIN map
    /\ ~ query.res.ok
    /\ query.res.err.source.variant = "ConvertionToInt"
    /\ query.res.err.status = 400

\* C4: the message of every failure a get returns names the key that was
\* asked for and says what went wrong
C4_MessageNamesField ==
    (query.asked /\ ~ query.res.ok) =>
        /\ NamesField(query.res.err.msg, query.key)
        /\ Len(query.res.err.msg) >= 1

\* C5: when the map is built, every name that two or more parts of the body
\* carry is a key whose payload is that of the last of them, and a get for
\* it converts that payload
C5_LastPartWins ==
    pc = "built" =>
        \A k \in NamesOf(body) :
            Cardinality(PartsNamed(body, k)) >= 2 =>
                /\ k \in DOMAIN map
                /\ map[k] = body[Last(PartsNamed(body, k))].data
                /\ (query.asked /\ query.key = k) =>
                      query.res = Get(LastWins(body), k, query.ty)

\* C6: the keys of the map are names of named parts, every entry holds the
\* payload of a part of that name, the map is the one the named parts alone
\* give (an unnamed part changes no entry), construction fails only on a
\* named part, and a get sees only what the named parts give
C6_UnnamedExcluded ==
    LET named == SelectSeq(Drained, LAMBDA p : p.name # NoName) IN
    /\ DOMAIN map \subseteq NamesOf(body)
    /\ \A k \in DOMAIN map : \E i \in PartsNamed(body, k) : map[k] = body[i].data
    /\ pc \in {"next_field", "built"} => map = LastWins(named)
    /\ pc = "failed" => body[pos].name # NoName
    /\ query.asked => query.res = Get(LastWins(named), query.key, query.ty)

C6_Witness ==
    /\ pc = "built"
    /\ pos = 3
    /\ body[1] = [name |-> <<"id">>, data |-> <<55>>]
    /\ body[2] = [name |-> NoName, data |-> <<255>>]
    /\ map = [k \in {"id"} |-> <<55>>]
    /\ query.asked
    /\ query.key = "id"
    /\ query.res = Ok([t |-> "u8", v |-> 7])

\* C9: for a key that is in the map, a get for Option<T> returns Some(v)
\* when the get for T returns v, returns the error of the get for T when
\* that fails, and never returns None
C9_OptionDefers ==
    (query.asked /\ query.key \in DOMAIN map /\ query.ty.opt > 0) =>
        LET inner == Get(map, query.key, Type(query.ty.base, query.ty.opt - 1)) IN
        /\ inner.ok => query.res = Ok(Some(inner.val))
        /\ ~ inner.ok => (query.res = inner /\ query.res.err.status = 400)
        /\ query.res # Ok(None)

C9_Witness ==
    /\ query.asked
    /\ query.key \in DOMAIN map
    /\ map[query.key] = << >>
    /\ query.ty = Type("u8", 1)
    /\ ~ query.res.ok
    /\ query.res.err.source.variant = "ConvertionToInt"

\* C10: when MultiPartMap::new returns a map, the name of every named part
\* of the body is a key of it
C10_DrainsEveryNamedPart ==
    pc = "built" => NamesOf(body) \subseteq DOMAIN map

\* The key the declaration of a field asks for: its rename when it has one,
\* its identifier otherwise
DeclaredKey(f) == IF Len(f.rename) = 1 THEN f.rename[1] ELSE f.ident

\* What a get for field i of the record returns on the map
FieldGet(i) == Get(map, DeclaredKey(record[i]), record[i].ty)

FailingFields == {i \in 1..Len(record) : ~ FieldGet(i).ok}

First(S) == CHOOSE i \in S : \A j \in S : i <= j

\* C2: decode asks for the fields in declaration order and stops at the
\* first one whose get fails: its error is the result, no later field is
\* asked for and no record is returned; without a failing field every field
\* is asked for and bound
C2_FirstFailureWins ==
    pc = "decoded" =>
        IF FailingFields = {}
        THEN /\ decoded.result.ok
             /\ Len(decoded.result.val) = Len(record)
             /\ decoded.queried = [i \in 1..Len(record) |-> DeclaredKey(record[i])]
        ELSE LET k == First(FailingFields) IN
             /\ decoded.result = FieldGet(k)
             /\ ~ decoded.result.ok
             /\ decoded.queried = [i \in 1..k |-> DeclaredKey(record[i])]

\* {id: u8, title: String} on the single part title: id is reported missing
C2_Witness ==
    /\ pc = "decoded"
    /\ Len(record) = 2
    /\ record[1] = [ident |-> "id", rename |-> NoName, ty |-> Type("u8", 0)]
    /\ record[2] = [ident |-> "title", rename |-> NoName, ty |-> Type("String", 0)]
    /\ map = [k \in {"title"} |-> <<55>>]
    /\ IsNotFound(decoded.result, "id")
    /\ decoded.queried = <<"id">>

\* C8: each field is asked for under one key, its rename when it has one and
\* its identifier otherwise, and what it is bound to (or fails with) is what
\* the part of that key gives, whatever the part named after the identifier
\* holds
C8_RenameKey ==
    pc = "decoded" =>
        /\ Len(decoded.queried) <= Len(record)
        /\ \A i \in 1..Len(decoded.queried) :
              /\ decoded.queried[i] = DeclaredKey(record[i])
              /\ IF decoded.result.ok \/ i < Len(decoded.queried)
                 THEN LET bound == IF decoded.result.ok THEN decoded.result.val[i]
                                   ELSE [ident |-> record[i].ident, val |-> FieldGet(i).val]
                      IN  /\ bound.ident = record[i].ident
                          /\ FieldGet(i).ok
                          /\ bound.val = FieldGet(i).val
                 ELSE decoded.result = FieldGet(i)

\* name renamed to full_name, both parts present with different payloads
C8_Witness ==
    /\ pc = "decoded"
    /\ Len(record) = 1
    /\ record[1] = [ident |-> "name", rename |-> <<"full_name">>, ty |-> Type("u8", 0)]
    /\ "name" \in DOMAIN map
    /\ "full_name" \in DOMAIN map
    /\ map["name"] = <<255>>
    /\ map["full_name"] = <<55>>
    /\ decoded.result = Ok(<<[ident |-> "name", val |-> [t |-> "u8", v |-> 7]]>>)
    /\ decoded.queried = <<"full_name">>

\* The UTF-8 encoding of a scalar value
EncodeUtf8(c) ==
    IF c < 128 THEN <<c>>
    ELSE IF c < 2048 THEN <<192 + (c \div 64), 128 + (c % 64)>>
    ELSE IF c < 65536
         THEN <<224 + (c \div 4096), 128 + ((c \div 64) % 64), 128 + (c % 64)>>
    ELSE <<240 + (c \div 262144), 128 + ((c \div 4096) % 64),
           128 + ((c \div 64) % 64), 128 + (c % 64)>>

IsScalar(c) == c >= 0 /\ c <= 1114111 /\ ~ (c >= 55296 /\ c <= 57343)

\* The payload bits of 1 to 4 bytes read as one sequence
BitsOf(s) ==
    CASE Len(s) = 1 -> s[1]
      [] Len(s) = 2 -> (s[1] % 32) * 64 + (s[2] % 64)
      [] Len(s) = 3 -> (s[1] % 16) * 4096 + (s[2] % 64) * 64 + (s[3] % 64)
      [] Len(s) = 4 -> (s[1] % 8) * 262144 + (s[2] % 64) * 4096
                       + (s[3] % 64) * 64 + (s[4] % 64)

\* s is the encoding of one scalar value
IsScalarEncoding(s) ==
    /\ Len(s) \in 1..4
    /\ IsScalar(BitsOf(s))
    /\ EncodeUtf8(BitsOf(s)) = s

RECURSIVE WellFormedFrom(_, _)
\* b[i..] is a sequence of encodings of scalar values
WellFormedFrom(b, i) ==
    \/ i > Len(b)
    \/ \E w \in 1..4 :
          /\ i + w - 1 <= Len(b)
          /\ IsScalarEncoding(SubSeq(b, i, i + w - 1))
          /\ WellFormedFrom(b, i + w)

WellFormed(b) == WellFormedFrom(b, 1)

AllDigits(s, i, j) == \A k \in i..j : IsDigit(s[k])

RECURSIVE Pow10(_)
Pow10(n) == IF n = 0 THEN 1 ELSE 10 * Pow10(n - 1)

RECURSIVE PlaceSum(_, _)
\* The number the decimal digits s[i..] write
PlaceSum(s, i) ==
    IF i > Len(s) THEN 0 ELSE (s[i] - 48) * Pow10(Len(s) - i) + PlaceSum(s, i + 1)

\* An optional sign (minus only for a signed type), then one digit or more
IsIntText(ty, p) ==
    /\ Len(p) >= 1
    /\ LET digits == IF p[1] = 43 \/ (p[1] = 45 /\ ty \in {"i8", "i16"})
                     THEN Tail(p) ELSE p
       IN  Len(digits) >= 1 /\ AllDigits(digits, 1, Len(digits))

IntTextValue(p) ==
    IF p[1] = 45 THEN 0 - PlaceSum(Tail(p), 1)
    ELSE IF p[1] = 43 THEN PlaceSum(Tail(p), 1)
    ELSE PlaceSum(p, 1)

\* [sign] (nan | inf | infinity | digits [. digits] [(e|E) [sign] digits])
\* with a digit before or after the point
IsFloatText(p) ==
    /\ Len(p) >= 1
    /\ LET s == IF p[1] \in {43, 45} THEN Tail(p) ELSE p
           n == Len(s)
       IN  \/ LowerAll(s) \in {<<110, 97, 110>>, <<105, 110, 102>>,
                               <<105, 110, 102, 105, 110, 105, 116, 121>>}
           \/ \E a \in 0..n, dot \in 0..1, b \in 0..n, e \in 0..1, sg \in 0..1, c \in 0..n :
                 /\ a + dot + b + e + sg + c = n
                 /\ a + b >= 1
                 /\ AllDigits(s, 1, a)
                 /\ dot = 1 => s[a + 1] = 46
                 /\ AllDigits(s, a + dot + 1, a + dot + b)
                 /\ e = 1 => (s[a + dot + b + 1] \in {101, 69} /\ c >= 1)
                 /\ e = 0 => (sg = 0 /\ c = 0)
                 /\ sg = 1 => s[a + dot + b + 2] \in {43, 45}
                 /\ AllDigits(s, n - c + 1, n)

\* p is the text of a value of the type
HasText(ty, p) ==
    CASE ty = "bool" -> p \in {<<116, 114, 117, 101>>, <<102, 97, 108, 115, 101>>}
      [] ty = "char" -> IsScalarEncoding(p)
      [] ty \in FloatTypes -> IsFloatText(p)
      [] ty \in IntTypes ->
            IsIntText(ty, p) /\ IntTextValue(p) >= IntMin(ty) /\ IntTextValue(p) <= IntMax(ty)

\* v is the value the text p writes
IsValueOf(ty, p, v) ==
    CASE ty = "bool" -> v = (p = <<116, 114, 117, 101>>)
      [] ty = "char" -> v = BitsOf(p)
      [] ty \in IntTypes -> v = IntTextValue(p)
      [] ty \in FloatTypes ->
            (Len(p) >= 1 /\ AllDigits(p, 1, Len(p))) =>
                (v.kind = "num" /\ ~ v.neg /\ v.exp >= 0
                 /\ v.mant * Pow10(v.exp) = PlaceSum(p, 1))

\* The stage an error of the Deserialize*Error enums names
Stage(err) ==
    IF /\ err.variant = "ConvertionToString"
       /\ err.msg[1] \in {"Could not convert the value to UTF-8",
                          "Could not convert the value to UTF-8: "}
    THEN "utf8"
    ELSE IF /\ err.variant \in {"ConvertionToInt", "ConvertionToFloat", "ConvertionToChar"}
            /\ err.msg[1] \in {"Could not parse the value as a integer: ",
                               "Could not parse the value as float: ",
                               "Could not parse the value as boolean: ",
                               "Could not parse the value as character: "}
    THEN "parse"
    ELSE "none"

\* C7: from_bytes for bool, char, a float or an integer type returns the
\* value the payload writes when the payload is UTF-8 and the text of a
\* value of the type, an error of the UTF-8 stage when the payload is not
\* UTF-8, and an error of the parse stage when it is UTF-8 but not the text
\* of a value of the type (an integer out of range included)
C7_StagedConversion ==
    (conv.done /\ conv.ty.opt = 0 /\ conv.ty.base \in StringlyTypes) =>
        IF ~ WellFormed(conv.body)
        THEN ~ conv.res.ok /\ Stage(conv.res.err) = "utf8"
                /\ conv.res.err.ty = ErrorEnum(conv.ty.base)
        ELSE IF HasText(conv.ty.base, conv.body)
        THEN /\ conv.res.ok
             /\ conv.res.val.t = conv.ty.base
             /\ IsValueOf(conv.ty.base, conv.body, conv.res.val.v)
        ELSE ~ conv.res.ok /\ Stage(conv.res.err) = "parse"
                /\ conv.res.err.ty = ErrorEnum(conv.ty.base)

\* "-199" as an i8: UTF-8, out of range, reported by the parse stage
C7_Witness ==
    /\ conv.done
    /\ conv.ty = Type("i8", 0)
    /\ conv.body = <<45, 49, 57, 57>>
    /\ ~ conv.res.ok
    /\ conv.res.err.msg = <<"Could not parse the value as a integer: ",
                            "number too small to fit in target type">>

====
